---------------------------- MODULE Spec2Model ----------------------------
(***************************************************************************)
(* http-prompt command line entry point (src/http_prompt/cli.py).          *)
(*                                                                         *)
(* Strings the program inspects character by character (URLs) are          *)
(* sequences of one-character strings.  A Cookie header is the sequence of *)
(* its "name=value" segments.                                              *)
(***************************************************************************)
EXTENDS Integers, Sequences, FiniteSets, TLC

VARIABLES
    \* --- fix_incomplete_url applied to one input --------------------------
    urlIn,        \* the argument of fix_incomplete_url
    urlOut,       \* its result
    urlDone,      \* whether the function has been applied
    \* --- update_cookies applied to one input ------------------------------
    ckBase,       \* base_value: the existing Cookie header, or None
    ckNew,        \* cookies: mapping of the response's cookies
    ckOut,        \* the returned header
    ckDone,       \* whether the function has been applied
    \* --- cli() ------------------------------------------------------------
    pc,           \* where cli() is
    args,         \* the command line: sys.argv as click hands it to cli()
    cfg,          \* config.load()
    spec,         \* cli's local `spec`
    url,          \* cli's local `url`
    io,           \* what happened to the --spec response
    context,      \* the Context object
    listener,     \* cli's local `listener`
    sessionFile,  \* the default session snapshot on disk
    envFile,      \* the file --env names
    \* --- the execute() call in progress -----------------------------------
    exCaller,     \* "startup" (line 174) or "repl" (line 185)
    exListener,   \* its listener argument
    exLine,       \* its command argument
    exStep,       \* where the engine is
    exResponse,   \* the response the request executor returned
    exStatus,     \* how the line went: "ok" or the error reported
    \* --- history ----------------------------------------------------------
    callSaves,    \* save_context calls made for the last notification
    asked,        \* click.confirm in the last response_returned, and the answer
    accepted,     \* lines the prompt returned
    exitVia,      \* why the loop ended
    loadedPrev,   \* whether the previous session was loaded
    loadedEnv,    \* whether the --env file was loaded
    startupExecs  \* execute() calls made before the first prompt

urlVars == <<urlIn, urlOut, urlDone>>
ckVars  == <<ckBase, ckNew, ckOut, ckDone>>
cliVars == <<pc, args, cfg, spec, url, io, context, listener, sessionFile, envFile>>
exVars  == <<exCaller, exListener, exLine, exStep, exResponse, exStatus>>
histVars == <<callSaves, asked, accepted, exitVia,
              loadedPrev, loadedEnv, startupExecs>>
vars == <<urlVars, ckVars, cliVars, exVars, histVars>>

None == "None"

\* An optional string (a str or None), as dict.get returns it.
Absent      == [some |-> FALSE, str |-> << >>]
Present(s)  == [some |-> TRUE, str |-> s]

----------------------------------------------------------------------------
(* Bounds *)

\* URL inputs are concatenations of at most MaxPieces pieces of UrlPieces.
MaxPieces == 6
\* An existing Cookie header has at most MaxSegs name=value segments.
MaxSegs == 2
\* REPL lines accepted in one run.
MaxLines == 2

----------------------------------------------------------------------------
(* Strings *)

EmptyStr == << >>

\* str.startswith(prefix)
StartsWith(s, p) == Len(s) >= Len(p) /\ SubSeq(s, 1, Len(p)) = p

\* str.startswith((p1, p2, ...))
StartsWithAny(s, ps) == \E p \in ps : StartsWith(s, p)

HTTP   == <<"h","t","t","p">>
HTTPC  == <<"h","t","t","p",":">>
HTTPSS == <<"h","t","t","p",":","/","/">>
HTTPSSS == <<"h","t","t","p","s",":","/","/">>

----------------------------------------------------------------------------
(* fix_incomplete_url *)

\* A slip: the '//' case prepends 'http' and loses the colon.
fix_incomplete_url_nocolon(u) ==
    IF StartsWithAny(u, {<<"s",":","/","/">>, <<":","/","/">>})
    THEN HTTP \o u
    ELSE IF StartsWith(u, <<"/","/">>)
    THEN HTTP \o u
    ELSE IF ~StartsWithAny(u, {HTTPSS, HTTPSSS})
    THEN HTTPSS \o u
    ELSE u

fix_incomplete_url(u) ==
    IF StartsWithAny(u, {<<"s",":","/","/">>, <<":","/","/">>})
    THEN HTTP \o u
    ELSE IF StartsWith(u, <<"/","/">>)
    THEN HTTPC \o u
    ELSE IF ~StartsWithAny(u, {HTTPSS, HTTPSSS})
    THEN HTTPSS \o u
    ELSE u

\* The pieces URL inputs are built from.
UrlPieces == {HTTP, <<"s">>, <<":">>, <<"/">>, <<"x">>}

RECURSIVE Flatten(_)
Flatten(ss) == IF ss = << >> THEN << >> ELSE Head(ss) \o Flatten(Tail(ss))

UrlInputs ==
    { Flatten(ps) : ps \in UNION { [1..n -> UrlPieces] : n \in 0..MaxPieces } }

----------------------------------------------------------------------------
(* update_cookies *)

\* Cookie names and values.  "version" is one of Morsel._reserved.
PlainKeys    == {"a", "b"}
ReservedKeys == {"version"}
CookieVals   == {"0", "1", "2"}

\* The order sorted() puts the names in.
KeyRank(k) == CASE k = "a" -> 1 [] k = "b" -> 2 [] OTHER -> 3

\* Morsel._reserved maps an attribute's name to its spelling in the output.
ReservedSpelling(k) == CASE k = "version" -> "Version" [] OTHER -> k

Segment(k, v) == [key |-> k, val |-> v]

\* A new Morsel: no value yet, every attribute empty.
NewMorsel == [value |-> None, version |-> ""]

\* BaseCookie.__set: the morsel the jar holds for the key (or a new one) gets
\* the value; its attributes stay.
JarSet(jar, k, v) ==
    LET M == IF k \in DOMAIN jar THEN jar[k] ELSE NewMorsel
    IN  [x \in DOMAIN jar \cup {k} |->
            IF x = k THEN [M EXCEPT !.value = v] ELSE jar[x]]

\* BaseCookie.__parse_string, first pass: the parsed items; the string is
\* rejected (valid = FALSE) on a reserved name before any cookie.
RECURSIVE ParseItems(_, _, _)
ParseItems(segs, items, morsel_seen) ==
    IF segs = << >> THEN [valid |-> TRUE, items |-> items]
    ELSE LET s == Head(segs) IN
         IF s.key \in ReservedKeys
         THEN IF ~morsel_seen THEN [valid |-> FALSE, items |-> << >>]
              ELSE ParseItems(Tail(segs),
                              Append(items, [tp |-> "attr", key |-> s.key, val |-> s.val]),
                              morsel_seen)
         ELSE ParseItems(Tail(segs),
                         Append(items, [tp |-> "kv", key |-> s.key, val |-> s.val]),
                         TRUE)

\* BaseCookie.__parse_string, second pass: the items applied in order, an
\* attribute going to the morsel of the last name=value before it.
RECURSIVE ApplyItems(_, _, _)
ApplyItems(items, jar, cur) ==
    IF items = << >> THEN jar
    ELSE LET it == Head(items) IN
         IF it.tp = "attr"
         THEN ApplyItems(Tail(items),
                         [jar EXCEPT ![cur] = [@ EXCEPT !.version = it.val]],
                         cur)
         ELSE ApplyItems(Tail(items), JarSet(jar, it.key, it.val), it.key)

EmptyJar == [x \in {} |-> NewMorsel]

\* SimpleCookie(base_value): None and '' give an empty jar.
SimpleCookie(base_value) ==
    IF ~base_value.some THEN EmptyJar
    ELSE LET parsed == ParseItems(base_value.str, << >>, FALSE)
         IN  IF ~parsed.valid THEN EmptyJar
             ELSE ApplyItems(parsed.items, EmptyJar, None)

\* Morsel.OutputString: name=value, then the attributes that are set.
MorselOutput(k, M) ==
    <<Segment(k, M.value)>> \o
    (IF M.version = "" THEN << >>
     ELSE <<Segment(ReservedSpelling("version"), M.version)>>)

\* BaseCookie.output(header='', sep=';').lstrip(): the morsels in the order
\* of their names.
RECURSIVE JarOutput(_, _)
JarOutput(jar, keys) ==
    IF keys = {} THEN << >>
    ELSE LET k == CHOOSE x \in keys : \A y \in keys : KeyRank(x) <= KeyRank(y)
         IN  MorselOutput(k, jar[k]) \o JarOutput(jar, keys \ {k})

\* for k, v in cookies.items(): cookie[k] = v
RECURSIVE SetAll(_, _, _)
SetAll(jar, cookies, keys) ==
    IF keys = {} THEN jar
    ELSE LET k == CHOOSE x \in keys : TRUE
         IN  SetAll(JarSet(jar, k, cookies[k]), cookies, keys \ {k})

update_cookies(base_value, cookies) ==
    LET cookie == SetAll(SimpleCookie(base_value), cookies, DOMAIN cookies)
    IN  JarOutput(cookie, DOMAIN cookie)

\* Existing Cookie headers: absent, or up to MaxSegs name=value segments.
CookieSegments == { Segment(k, v) : k \in PlainKeys \cup ReservedKeys, v \in CookieVals }
CookieStrings == UNION { [1..n -> CookieSegments] : n \in 0..MaxSegs }
CookieHeaders == {Absent} \cup { Present(s) : s \in CookieStrings }

\* Response cookie mappings: names are legal, non-reserved cookie names.
CookieMaps == UNION { [ks -> CookieVals] : ks \in SUBSET PlainKeys }

----------------------------------------------------------------------------
(* Context and its persistence (http_prompt.context, http_prompt.contextio) *)

EmptyMap == [x \in {} |-> << >>]

\* dict[key] = value
DictSet(d, k, v) == [x \in DOMAIN d \cup {k} |-> IF x = k THEN v ELSE d[x]]

\* dict.get(key) of a mapping of strings: the value or None
DictGet(d, k) == IF k \in DOMAIN d THEN Present(d[k]) ELSE Absent

\* dict.update(other)
DictUpdate(d, other) ==
    [x \in DOMAIN d \cup DOMAIN other |-> IF x \in DOMAIN other THEN other[x] ELSE d[x]]

\* Context(url, spec=spec)
Context(u, sp) ==
    [url |-> u, spec |-> sp, options |-> EmptyMap, headers |-> EmptyMap,
     params |-> EmptyMap, should_exit |-> FALSE]

\* A snapshot file that does not exist (or cannot be read).
MissingFile ==
    [exists |-> FALSE, hasUrl |-> FALSE, url |-> EmptyStr, options |-> EmptyMap,
     headers |-> EmptyMap, params |-> EmptyMap]

\* save_context(context): the snapshot written.
save_context(c) ==
    [exists |-> TRUE, hasUrl |-> TRUE, url |-> c.url, options |-> c.options,
     headers |-> c.headers, params |-> c.params]

\* load_context(context, file): the context after the file's content has been
\* applied to it; a missing file leaves it as it is.
load_context(c, file) ==
    IF ~file.exists THEN c
    ELSE [c EXCEPT !.url = IF file.hasUrl THEN file.url ELSE @,
                   !.options = DictUpdate(@, file.options),
                   !.headers = DictUpdate(@, file.headers),
                   !.params = DictUpdate(@, file.params)]

----------------------------------------------------------------------------
(* Inputs of cli() *)

\* --spec as given on the command line (None: not given).
SpecArgs == {None, "api.json"}

\* The url argument ('' is click's default).
UrlArgs ==
    { EmptyStr, <<"x">>, <<"/","/","x">>, <<"s",":","/","/","x">>, HTTPSS \o <<"x">> }

NoArgs ==
    [argc1 |-> TRUE, spec |-> None, env |-> FALSE, url |-> EmptyStr,
     http_options |-> FALSE]

\* sys.argv: bare (len(sys.argv) == 1), or with arguments; click gives the
\* defaults for what is not passed.
ArgLines ==
    {NoArgs} \cup
    [argc1 : {FALSE}, spec : SpecArgs, env : BOOLEAN, url : UrlArgs,
     http_options : BOOLEAN]

\* The user's config: set_cookies may be missing (None) or empty.
Configs ==
    [set_cookies : {None, "", "auto", "ask", "off"}, output_style : {None, "native"}]

\* The configs cli() is run with.
CliConfigs ==
    { [set_cookies |-> None, output_style |-> "native"],
      [set_cookies |-> "ask", output_style |-> None] }

\* Python truth of a str-or-None value.
Truthy(v) == v # None /\ v # ""

\* A session left by an earlier run.
PrevSessions ==
    { MissingFile,
      [exists |-> TRUE, hasUrl |-> TRUE, url |-> HTTPSS \o <<"p">>,
       options |-> EmptyMap, headers |-> ("Cookie" :> <<[key |-> "b", val |-> "2"]>>),
       params |-> EmptyMap],
      [exists |-> TRUE, hasUrl |-> TRUE, url |-> EmptyStr,
       options |-> EmptyMap, headers |-> ("Accept" :> <<"j">>),
       params |-> EmptyMap] }

\* Environment files: with and without a URL.
EnvFiles ==
    { [exists |-> TRUE, hasUrl |-> TRUE, url |-> HTTPSS \o <<"e">>,
       options |-> EmptyMap, headers |-> ("Accept" :> <<"j">>), params |-> EmptyMap],
      [exists |-> TRUE, hasUrl |-> FALSE, url |-> EmptyStr,
       options |-> EmptyMap, headers |-> ("Accept" :> <<"j">>), params |-> EmptyMap] }

\* What urlopen(spec) meets: an unreachable source, or a response with a
\* Content-Encoding header (None: no such header) and a document.
Encodings == {None, "gzip", "deflate", "br"}
Documents == {"json", "yaml", "text"}
Fetches ==
    [reachable : {FALSE}, encoding : {None}, doc : {"text"}] \cup
    [reachable : {TRUE}, encoding : Encodings, doc : Documents]

\* Lines the user types (and the line the command-line options make).
NoLine == [kind |-> "none", name |-> "", value |-> << >>]
Lines ==
    { [kind |-> "syntax_error", name |-> "", value |-> << >>],
      [kind |-> "unknown_builtin", name |-> "", value |-> << >>],
      [kind |-> "exit", name |-> "", value |-> << >>],
      [kind |-> "get", name |-> "", value |-> << >>],
      [kind |-> "cd", name |-> "", value |-> <<"/","/","y">>],
      [kind |-> "header", name |-> "Cookie",
       value |-> <<[key |-> "a", val |-> "0"], [key |-> "b", val |-> "2"]>>],
      [kind |-> "param", name |-> "x", value |-> <<"1">>] }

\* What the request executor returns: a failure, or a response with cookies.
NoResponse == [ok |-> FALSE, cookies |-> [x \in {} |-> ""]]
Responses ==
    { NoResponse,
      [ok |-> TRUE, cookies |-> [x \in {} |-> ""]],
      [ok |-> TRUE, cookies |-> ("a" :> "1")] }

----------------------------------------------------------------------------
(* --spec *)

\* normalize_url: the click callback of --spec; a value without a scheme
\* (no match of ^\w+://) is a local path and becomes a file: URL.
normalize_url(value) ==
    IF Truthy(value)
    THEN IF value \in {"http://h/api.json"} THEN value ELSE "file:/cwd/api.json"
    ELSE None

\* response.read(): the body as sent, compressed when the server compressed it.
ResponseRead(f) ==
    CASE f.encoding = "gzip"    -> [packed |-> "gzip", doc |-> f.doc]
      [] f.encoding = "deflate" -> [packed |-> "raw", doc |-> "binary"]
      [] OTHER                  -> [packed |-> "no", doc |-> f.doc]

\* gzip.decompress
GzipDecompress(body) == [packed |-> "no", doc |-> body.doc]

\* _urlopen(response): pagedata, or the UnboundLocalError of `return pagedata`
\* when no branch has assigned it.
_urlopen(f) ==
    IF f.encoding = "gzip"
    THEN [raised |-> FALSE, pagedata |-> GzipDecompress(ResponseRead(f))]
    ELSE IF f.encoding = "deflate"
    THEN [raised |-> FALSE, pagedata |-> ResponseRead(f)]
    ELSE IF Truthy(f.encoding)
    THEN [raised |-> TRUE, pagedata |-> [packed |-> "no", doc |-> "unbound"]]
    ELSE [raised |-> FALSE, pagedata |-> ResponseRead(f)]

\* json.loads(content): the document, JSONDecodeError, or (bytes that are not
\* text) UnicodeDecodeError
json_loads(content) ==
    CASE content.doc = "json"   -> "json"
      [] content.doc = "binary" -> "UnicodeDecodeError"
      [] OTHER                  -> "JSONDecodeError"

\* yaml.load(content): the document or YAMLError
yaml_load(content) == IF content.doc = "yaml" THEN "yaml" ELSE "YAMLError"

\* Lines 129-137: the value of `spec` after the two parsers, whether the
\* warning was printed, and whether an exception escaped.
ParseSpec(content) ==
    LET j == json_loads(content) IN
    IF j = "json" THEN [raised |-> FALSE, spec |-> "json", warned |-> FALSE]
    ELSE IF j = "JSONDecodeError"
    THEN LET y == yaml_load(content) IN
         IF y = "yaml" THEN [raised |-> FALSE, spec |-> "yaml", warned |-> FALSE]
         ELSE [raised |-> FALSE, spec |-> None, warned |-> TRUE]
    ELSE [raised |-> TRUE, spec |-> None, warned |-> FALSE]

NoIo == [opened |-> FALSE, closed |-> FALSE, warned |-> FALSE, content |-> "none"]

\* Lines 125-139.
cli_load_spec ==
    /\ pc = "load_spec"
    /\ IF spec = None
       THEN pc' = "make_context" /\ UNCHANGED <<spec, io>>
       ELSE \E f \in Fetches :
            IF ~f.reachable
            THEN pc' = "crashed" /\ UNCHANGED <<spec, io>>
            ELSE LET page == _urlopen(f)
                     r == ParseSpec(page.pagedata)
                 IN  IF page.raised
                     THEN /\ pc' = "crashed"
                          /\ io' = [opened |-> TRUE, closed |-> TRUE, warned |-> FALSE,
                                    content |-> "unknown-encoding"]
                          /\ UNCHANGED spec
                     ELSE /\ pc' = IF r.raised THEN "crashed" ELSE "make_context"
                          /\ io' = [opened |-> TRUE, closed |-> TRUE, warned |-> r.warned,
                                    content |-> page.pagedata.doc]
                          /\ spec' = IF r.raised THEN spec ELSE r.spec
    /\ UNCHANGED <<args, cfg, url, context, listener, sessionFile, envFile,
                   urlVars, ckVars, exVars, histVars>>

----------------------------------------------------------------------------
(* Context creation and seeding *)

\* Lines 141-142 without the repair.
NormalizedUrl_raw(u) == u

\* Lines 141-142: if url: url = fix_incomplete_url(url)
NormalizedUrl(u) == IF u # EmptyStr THEN fix_incomplete_url(u) ELSE u

\* Lines 141-159.
cli_make_context ==
    /\ pc = "make_context"
    /\ url' = NormalizedUrl(url)
    /\ context' =
         LET c == Context(url', spec)
         IN  IF Truthy(cfg.output_style)
             THEN [c EXCEPT !.options = DictSet(@, "--style", <<cfg.output_style>>)]
             ELSE c
    /\ listener' = "listener"
    /\ pc' = "seed"
    /\ UNCHANGED <<args, cfg, spec, io, sessionFile, envFile,
                   urlVars, ckVars, exVars, histVars>>

\* Lines 161-169 with the override of the environment's URL left out.
Seeded_nooverride(c, a, u, session, env) ==
    IF a.argc1
    THEN [ctx |-> load_context(c, session), prev |-> TRUE, env |-> FALSE]
    ELSE IF a.env
    THEN [ctx |-> load_context(c, env), prev |-> FALSE, env |-> TRUE]
    ELSE [ctx |-> c, prev |-> FALSE, env |-> FALSE]

\* Lines 161-169 falling back to the previous session when no --env is given.
Seeded_fallback(c, a, u, session, env) ==
    IF a.argc1 \/ ~a.env
    THEN [ctx |-> load_context(c, session), prev |-> TRUE, env |-> FALSE]
    ELSE LET e == load_context(c, env)
         IN  [ctx |-> IF u # EmptyStr THEN [e EXCEPT !.url = u] ELSE e,
              prev |-> FALSE, env |-> TRUE]

\* Lines 161-169: the context after seeding, and which file was loaded.
Seeded(c, a, u, session, env) ==
    IF a.argc1
    THEN [ctx |-> load_context(c, session), prev |-> TRUE, env |-> FALSE]
    ELSE IF a.env
    THEN LET e == load_context(c, env)
         IN  [ctx |-> IF u # EmptyStr THEN [e EXCEPT !.url = u] ELSE e,
              prev |-> FALSE, env |-> TRUE]
    ELSE [ctx |-> c, prev |-> FALSE, env |-> FALSE]

\* Lines 161-169.
cli_seed ==
    /\ pc = "seed"
    /\ LET r == Seeded(context, args, url, sessionFile, envFile)
       IN  /\ context' = r.ctx
           /\ loadedPrev' = r.prev
           /\ loadedEnv' = r.env
    /\ pc' = "options"
    /\ UNCHANGED <<args, cfg, spec, url, io, listener, sessionFile, envFile,
                   urlVars, ckVars, exVars,
                   callSaves, asked, accepted, exitVia, startupExecs>>

----------------------------------------------------------------------------
(* execute(command, context, listener) (http_prompt.execution) *)

\* The call: the engine starts on the line with the listener it was given.
Call(caller, line, l) ==
    /\ exCaller' = caller
    /\ exLine' = line
    /\ exListener' = l
    /\ exStep' = "apply"
    /\ exStatus' = "ok"
    /\ exResponse' = NoResponse
    /\ asked' = "not_asked"

\* Whether the line ends in a request.
Dispatches(line) == line.kind \in {"get", "header", "param"}

\* The line's tokens applied to the context.
Applied(c, line) ==
    CASE line.kind = "exit"   -> [c EXCEPT !.should_exit = TRUE]
      [] line.kind = "cd"     -> [c EXCEPT !.url = fix_incomplete_url(line.value)]
      [] line.kind = "header" -> [c EXCEPT !.headers = DictSet(@, line.name, line.value)]
      [] line.kind = "param"  -> [c EXCEPT !.params = DictSet(@, line.name, line.value)]
      [] OTHER                -> c

\* Tokenize, classify and apply the line; a line that cannot be processed is
\* reported and leaves the context as it is.
execute_apply ==
    /\ pc = "execute" /\ exStep = "apply"
    /\ context' = Applied(context, exLine)
    /\ exStatus' = IF exLine.kind \in {"syntax_error", "unknown_builtin"}
                   THEN exLine.kind ELSE "ok"
    /\ IF exLine.kind \in {"cd", "header", "param"} /\ exListener # None
       THEN exStep' = "notify" /\ callSaves' = 0
       ELSE /\ exStep' = IF Dispatches(exLine) THEN "dispatch" ELSE "return"
            /\ UNCHANGED callSaves
    /\ UNCHANGED <<pc, args, cfg, spec, url, io, listener, sessionFile, envFile,
                   urlVars, ckVars, exCaller, exListener, exLine, exResponse,
                   asked, accepted, exitVia,
                   loadedPrev, loadedEnv, startupExecs>>

\* The request executor: a failure is reported, a response goes to the
\* listener.
execute_dispatch ==
    /\ pc = "execute" /\ exStep = "dispatch"
    /\ \E r \in Responses :
         /\ exResponse' = r
         /\ exStatus' = IF r.ok THEN exStatus ELSE "request_failure"
         /\ exStep' = IF r.ok /\ exListener # None THEN "respond" ELSE "return"
    /\ UNCHANGED <<cliVars, urlVars, ckVars, exCaller, exListener, exLine, histVars>>

\* execute returns to its caller.
execute_return ==
    /\ pc = "execute" /\ exStep = "return"
    /\ exStep' = "idle"
    /\ exLine' = NoLine
    /\ exResponse' = NoResponse
    /\ pc' = IF exCaller = "startup" THEN "prompt" ELSE "after_execute"
    /\ UNCHANGED <<args, cfg, spec, url, io, context, listener, sessionFile, envFile,
                   urlVars, ckVars, exCaller, exListener, exStatus,
                   callSaves, asked, accepted, exitVia,
                   loadedPrev, loadedEnv, startupExecs>>

----------------------------------------------------------------------------
(* ExecutionListener *)

\* context_changed without the save.
Saved_nothing(c, file, ok) == [file |-> file, calls |-> 0, ctx |-> c]

\* Lines 62-64: save_context(context); ok is whether the write succeeded.
Saved(c, file, ok) ==
    [file |-> IF ok THEN save_context(c) ELSE file, calls |-> 1, ctx |-> c]

\* ExecutionListener.context_changed
context_changed ==
    /\ pc = "execute" /\ exStep = "notify"
    /\ \E ok \in BOOLEAN :
         LET r == Saved(context, sessionFile, ok)
         IN  /\ sessionFile' = r.file
             /\ callSaves' = callSaves + r.calls
             /\ context' = r.ctx
             /\ exStatus' = IF ok THEN exStatus ELSE "save_failure"
    /\ exStep' = IF Dispatches(exLine) THEN "dispatch" ELSE "return"
    /\ UNCHANGED <<pc, args, cfg, spec, url, io, listener, envFile,
                   urlVars, ckVars, exCaller, exListener, exLine, exResponse,
                   asked, accepted, exitVia,
                   loadedPrev, loadedEnv, startupExecs>>

\* Line 70 without the default.
cookie_pref_nodefault(c) == c.set_cookies

\* Line 70: cookie_pref = self.cfg.get('set_cookies') or 'auto'
cookie_pref(c) == IF Truthy(c.set_cookies) THEN c.set_cookies ELSE "auto"

\* Lines 66-77: the context after the response, and whether click.confirm
\* was called; answer is what the user says when asked.
Returned(c, response, config, answer) ==
    IF DOMAIN response.cookies = {}
    THEN [ctx |-> c, asked |-> "not_asked"]
    ELSE LET pref == cookie_pref(config)
             adopt == pref = "auto" \/ (pref = "ask" /\ answer)
         IN  [ctx |-> IF adopt
                      THEN [c EXCEPT !.headers =
                              DictSet(@, "Cookie",
                                      update_cookies(DictGet(c.headers, "Cookie"),
                                                     response.cookies))]
                      ELSE c,
              asked |-> IF pref # "auto" /\ pref = "ask"
                        THEN IF answer THEN "confirmed" ELSE "declined"
                        ELSE "not_asked"]

\* ExecutionListener.response_returned
response_returned ==
    /\ pc = "execute" /\ exStep = "respond"
    /\ \E answer \in BOOLEAN :
         LET r == Returned(context, exResponse, cfg, answer)
         IN  context' = r.ctx /\ asked' = r.asked
    /\ exStep' = "return"
    /\ UNCHANGED <<pc, args, cfg, spec, url, io, listener, sessionFile, envFile,
                   urlVars, ckVars, exCaller, exListener, exLine, exResponse, exStatus,
                   callSaves, accepted, exitVia,
                   loadedPrev, loadedEnv, startupExecs>>

----------------------------------------------------------------------------
(* Command-line options and the REPL loop *)

\* Line 174: listener=listener
StartupListener(l) == l

\* Lines 171-174.
cli_options ==
    /\ pc = "options"
    /\ IF args.http_options
       THEN /\ \E line \in Lines : Call("startup", line, StartupListener(listener))
            /\ startupExecs' = startupExecs + 1
            /\ pc' = "execute"
       ELSE /\ pc' = "prompt"
            /\ UNCHANGED <<exVars, asked, startupExecs>>
    /\ UNCHANGED <<args, cfg, spec, url, io, context, listener, sessionFile, envFile,
                   urlVars, ckVars,
                   callSaves, accepted, exitVia,
                   loadedPrev, loadedEnv>>

\* Lines 177-183, 185: prompt() returns a line, which execute is called on.
cli_prompt_line ==
    /\ pc = "prompt"
    /\ accepted < MaxLines
    /\ \E line \in Lines : Call("repl", line, listener)
    /\ accepted' = accepted + 1
    /\ pc' = "execute"
    /\ UNCHANGED <<args, cfg, spec, url, io, context, listener, sessionFile, envFile,
                   urlVars, ckVars,
                   callSaves, exitVia,
                   loadedPrev, loadedEnv, startupExecs>>

\* Lines 177-183: prompt() raises EOFError (Control-D).
cli_prompt_eof ==
    /\ pc = "prompt"
    /\ pc' = "goodbye"
    /\ exitVia' = "eof"
    /\ UNCHANGED <<args, cfg, spec, url, io, context, listener, sessionFile, envFile,
                   urlVars, ckVars, exVars,
                   callSaves, asked, accepted,
                   loadedPrev, loadedEnv, startupExecs>>

\* Lines 186-187 with the test left out.
LoopBreaks_never(c, status) == FALSE

\* Lines 186-187 leaving the loop on a line that failed, too.
LoopBreaks_onerror(c, status) == c.should_exit \/ status # "ok"

\* Lines 186-187: if context.should_exit: break
LoopBreaks(c, status) == c.should_exit

\* Lines 186-187.
cli_after_execute ==
    /\ pc = "after_execute"
    /\ IF LoopBreaks(context, exStatus)
       THEN pc' = "goodbye" /\ exitVia' = IF context.should_exit THEN "should_exit" ELSE "error"
       ELSE pc' = "prompt" /\ UNCHANGED exitVia
    /\ UNCHANGED <<args, cfg, spec, url, io, context, listener, sessionFile, envFile,
                   urlVars, ckVars, exVars,
                   callSaves, asked, accepted,
                   loadedPrev, loadedEnv, startupExecs>>

\* Line 189.
cli_goodbye ==
    /\ pc = "goodbye"
    /\ pc' = "done"
    /\ UNCHANGED <<args, cfg, spec, url, io, context, listener, sessionFile, envFile,
                   urlVars, ckVars, exVars, histVars>>

----------------------------------------------------------------------------
(* Specifications *)

UrlIdle == urlIn = EmptyStr /\ urlOut = EmptyStr /\ urlDone = FALSE

CookieIdle ==
    ckBase = Absent /\ ckNew = [x \in {} |-> ""] /\ ckOut = << >> /\ ckDone = FALSE

ExIdle ==
    /\ exCaller = "none" /\ exListener = None /\ exLine = NoLine
    /\ exStep = "idle" /\ exResponse = NoResponse /\ exStatus = "ok"

HistIdle ==
    /\ callSaves = 0 /\ asked = "not_asked"
    /\ accepted = 0 /\ exitVia = "none"
    /\ loadedPrev = FALSE /\ loadedEnv = FALSE /\ startupExecs = 0

CliIdle ==
    /\ pc = "idle" /\ args = NoArgs
    /\ cfg = [set_cookies |-> None, output_style |-> None]
    /\ spec = None /\ url = EmptyStr /\ io = NoIo
    /\ context = Context(EmptyStr, None) /\ listener = None
    /\ sessionFile = MissingFile /\ envFile = MissingFile
    /\ ExIdle /\ HistIdle

\* cli() is entered: click has parsed the command line and run the --spec
\* callback.  The files that this run does not read are left out.
Init ==
    /\ pc = "load_spec"
    /\ args \in ArgLines
    /\ cfg \in CliConfigs
    /\ spec = normalize_url(args.spec)
    /\ url = args.url
    /\ io = NoIo
    /\ context = Context(EmptyStr, None)
    /\ listener = None
    /\ sessionFile \in IF args.argc1 THEN PrevSessions ELSE {MissingFile}
    /\ envFile \in IF args.env THEN EnvFiles ELSE {MissingFile}
    /\ ExIdle /\ HistIdle /\ UrlIdle /\ CookieIdle

Next ==
    \/ cli_load_spec
    \/ cli_make_context
    \/ cli_seed
    \/ cli_options
    \/ cli_prompt_line
    \/ cli_prompt_eof
    \/ execute_apply
    \/ context_changed
    \/ execute_dispatch
    \/ response_returned
    \/ execute_return
    \/ cli_after_execute
    \/ cli_goodbye

Spec == Init /\ [][Next]_vars

InitUrl ==
    /\ urlIn \in UrlInputs
    /\ urlOut = EmptyStr
    /\ urlDone = FALSE
    /\ CookieIdle /\ CliIdle

ApplyFixUrl ==
    /\ ~urlDone
    /\ urlOut' = fix_incomplete_url(urlIn)
    /\ urlDone' = TRUE
    /\ UNCHANGED <<urlIn, ckVars, cliVars, exVars, histVars>>

NextUrl == ApplyFixUrl

SpecUrl == InitUrl /\ [][NextUrl]_vars

\* response_returned calls update_cookies only when the response has cookies.
InitCookie ==
    /\ ckBase \in CookieHeaders
    /\ ckNew \in { m \in CookieMaps : DOMAIN m # {} }
    /\ ckOut = << >>
    /\ ckDone = FALSE
    /\ UrlIdle /\ CliIdle

ApplyUpdateCookies ==
    /\ ~ckDone
    /\ ckOut' = update_cookies(ckBase, ckNew)
    /\ ckDone' = TRUE
    /\ UNCHANGED <<ckBase, ckNew, urlVars, cliVars, exVars, histVars>>

NextCookie == ApplyUpdateCookies

SpecCookie == InitCookie /\ [][NextCookie]_vars

\* The contexts, lines and responses the listener's methods are applied to.
ListenerHeaders ==
    { DictUpdate(c, a) :
        c \in { EmptyMap,
                ("Cookie" :> <<[key |-> "b", val |-> "2"]>>),
                ("Cookie" :> <<[key |-> "a", val |-> "0"], [key |-> "b", val |-> "2"]>>),
                ("Cookie" :> <<[key |-> "b", val |-> "2"], [key |-> "version", val |-> "1"]>>) },
        a \in { EmptyMap, ("Accept" :> <<"j">>) } }

ListenerContexts ==
    [url : {EmptyStr, HTTPSS \o <<"x">>}, spec : {None},
     options : {EmptyMap, ("--style" :> <<"native">>)},
     headers : ListenerHeaders,
     params : {EmptyMap, ("x" :> <<"1">>)},
     should_exit : BOOLEAN]

\* A listener method is about to be called by the engine.
InitListener ==
    /\ pc = "execute"
    /\ args = NoArgs
    /\ cfg \in Configs
    /\ spec = None /\ url = EmptyStr /\ io = NoIo
    /\ context \in ListenerContexts
    /\ listener = "listener"
    /\ sessionFile = MissingFile /\ envFile = MissingFile
    /\ exCaller = "repl" /\ exListener = "listener" /\ exStatus = "ok"
    /\ \/ /\ exStep = "notify"
          /\ exLine \in {l \in Lines : l.kind \in {"cd", "header", "param"}}
          /\ exResponse = NoResponse
       \/ /\ exStep = "respond"
          /\ exLine \in {l \in Lines : l.kind = "get"}
          /\ exResponse \in [ok : {TRUE}, cookies : CookieMaps]
    /\ HistIdle /\ UrlIdle /\ CookieIdle

NextListener == context_changed \/ response_returned

SpecListener == InitListener /\ [][NextListener]_vars

----------------------------------------------------------------------------
(* C1 *)

Schemed(u) == StartsWithAny(u, {HTTPSS, HTTPSSS})

\* C1: fix_incomplete_url turns '//...' into 'http://...', '://...' into
\* 'http://...', 's://...' into 'https://...', leaves 'http://...' and
\* 'https://...' as they are and prepends 'http://' to anything else; so the
\* result always starts with 'http://' or 'https://'.
C1_FixIncompleteUrl ==
    urlDone =>
        /\ StartsWith(urlIn, <<"/","/">>) => urlOut = HTTPC \o urlIn
        /\ StartsWith(urlIn, <<":","/","/">>) => urlOut = HTTP \o urlIn
        /\ StartsWith(urlIn, <<"s",":","/","/">>) => urlOut = HTTP \o urlIn
        /\ Schemed(urlIn) => urlOut = urlIn
        /\ ( /\ ~StartsWith(urlIn, <<"/","/">>)
             /\ ~StartsWith(urlIn, <<":","/","/">>)
             /\ ~StartsWith(urlIn, <<"s",":","/","/">>)
             /\ ~Schemed(urlIn) ) => urlOut = HTTPSS \o urlIn
        /\ Schemed(urlOut)

\* An input of the '//host' shape has been repaired.
C1_Witness ==
    /\ urlDone
    /\ urlIn = <<"/","/","x">>
    /\ urlOut = <<"h","t","t","p",":","/","/","x">>


----------------------------------------------------------------------------
(* C2 *)

\* The names of a Cookie header, and the values it gives a name.
HeaderNames(h) == IF h.some THEN { h.str[i].key : i \in 1..Len(h.str) } ELSE {}
HeaderValues(h, n) ==
    IF h.some THEN { h.str[i].val : i \in { j \in 1..Len(h.str) : h.str[j].key = n } }
    ELSE {}

\* C2: the header update_cookies returns holds every name of the existing
\* header that the response does not set, with a value the existing header
\* gave it, every name of the response with the response's value, and no
\* other name.
C2_CookieMergeKeepsNames ==
    ckDone =>
        /\ \A n \in HeaderNames(ckBase) \ DOMAIN ckNew :
              \E i \in 1..Len(ckOut) :
                  ckOut[i].key = n /\ ckOut[i].val \in HeaderValues(ckBase, n)
        /\ \A n \in DOMAIN ckNew :
              \E i \in 1..Len(ckOut) : ckOut[i] = Segment(n, ckNew[n])
        /\ { ckOut[i].key : i \in 1..Len(ckOut) } \subseteq
              HeaderNames(ckBase) \cup DOMAIN ckNew

----------------------------------------------------------------------------
(* C3 *)

\* execute has just been called: the context is as the CLI hands it over.
ExecuteCalled == pc = "execute" /\ exStep = "apply"

\* C3 as stated: at every call of execute made by the CLI, context.url starts
\* with 'http://' or 'https://', whatever the URL's source.
C3_UrlAlwaysSchemed == ExecuteCalled => Schemed(context.url)

\* C3 as amended: at every call of execute made by the CLI, context.url is
\* fully schemed or the empty string, and it is fully schemed whenever a
\* non-empty url argument was given.
C3_UrlSchemedOrEmpty ==
    ExecuteCalled =>
        /\ Schemed(context.url) \/ context.url = EmptyStr
        /\ args.url # EmptyStr => Schemed(context.url)

\* The startup options are executed on the repaired '//x' argument.
C3_Witness ==
    /\ ExecuteCalled /\ exCaller = "startup"
    /\ args.url = <<"/","/","x">>
    /\ context.url = HTTPSS \o <<"x">>

----------------------------------------------------------------------------
(* C4 *)

\* C4: the loop is left only from the prompt on end-of-input or after a line
\* that left should_exit true; after such a line the next step is Goodbye,
\* never another prompt; whenever the prompt is shown or the loop has ended,
\* no line is being executed.
C4_ShouldExitEndsLoop ==
    /\ [] ( /\ pc \in {"prompt", "goodbye", "done"} => exStep = "idle"
            /\ pc \in {"goodbye", "done"} =>
                  /\ exitVia \in {"eof", "should_exit"}
                  /\ exitVia = "should_exit" => context.should_exit )
    /\ [][ /\ (pc = "after_execute" /\ context.should_exit) => pc' = "goodbye"
           /\ (pc # "goodbye" /\ pc' = "goodbye") => pc \in {"prompt", "after_execute"}
           /\ (exitVia # "eof" /\ exitVia' = "eof") => pc = "prompt"
           /\ pc = "goodbye" => pc' = "done" ]_vars

\* The loop has ended because a second line set should_exit.
C4_Witness ==
    /\ pc = "done" /\ exitVia = "should_exit" /\ accepted = 2

----------------------------------------------------------------------------
(* C5 *)

\* C5: a line that failed (tokenize error, unknown built-in, request failure,
\* failed save in the listener) is followed by the prompt unless should_exit
\* is set, and the loop ends only by end-of-input or should_exit; nothing
\* stops the program once the loop has been entered.
C5_ErrorsStayLocal ==
    /\ [] ( /\ pc \in {"goodbye", "done"} => exitVia \in {"eof", "should_exit"}
            /\ pc = "crashed" => (accepted = 0 /\ exCaller = "none") )
    /\ [][ (pc = "after_execute" /\ exStatus # "ok" /\ ~context.should_exit)
              => pc' = "prompt" ]_vars

\* The prompt is up again after a first line that failed.
C5_Witness ==
    /\ pc = "prompt" /\ accepted = 1
    /\ exStatus \in {"syntax_error", "unknown_builtin", "request_failure", "save_failure"}

----------------------------------------------------------------------------
(* C6 *)

\* C6: every execute call of the CLI is given the one listener cli() made;
\* a context_changed notification calls save_context exactly once, on the
\* current context, and leaves every field of the context as it was.
C6_SaveOnEveryChange ==
    /\ [] ( pc = "execute" => (listener = "listener" /\ exListener = listener) )
    /\ [][ (exStep = "notify" /\ exStep' # "notify") =>
              /\ context' = context
              /\ callSaves = 0 /\ callSaves' = 1
              /\ exStatus' # "save_failure" => sessionFile' = save_context(context) ]_vars

\* The startup options changed the context and the listener saved it.
C6_Witness ==
    /\ exCaller = "startup" /\ exStep = "return" /\ callSaves = 1
    /\ sessionFile = save_context(context)

----------------------------------------------------------------------------
(* C7 *)

\* The headers other than Cookie are the same in both contexts.
SameOtherHeaders(c, d) ==
    /\ DOMAIN c.headers \ {"Cookie"} = DOMAIN d.headers \ {"Cookie"}
    /\ \A h \in DOMAIN c.headers \ {"Cookie"} : c.headers[h] = d.headers[h]

\* The context d is c with the Cookie header set to the merge of the response.
CookieAdopted(c, d, response) ==
    /\ "Cookie" \in DOMAIN d.headers
    /\ d.headers["Cookie"] = update_cookies(DictGet(c.headers, "Cookie"), response.cookies)

\* C7: response_returned leaves url, options, params and the headers other
\* than Cookie alone; without cookies in the response it changes nothing;
\* with set_cookies 'auto', missing or empty it sets Cookie to the merged
\* value without asking; with 'ask' it asks, and sets Cookie if the user
\* confirms and changes nothing if not; with any other value it changes
\* nothing and does not ask.
C7_ResponseReturnedFrame ==
    [][ (exStep = "respond" /\ exStep' # "respond") =>
          LET has == DOMAIN exResponse.cookies # {}
              pref == cfg.set_cookies
          IN  /\ context'.url = context.url
              /\ context'.options = context.options
              /\ context'.params = context.params
              /\ context'.spec = context.spec
              /\ context'.should_exit = context.should_exit
              /\ SameOtherHeaders(context, context')
              /\ ~has => (context' = context /\ asked' = "not_asked")
              /\ (has /\ pref \in {"auto", None, ""}) =>
                    (CookieAdopted(context, context', exResponse) /\ asked' = "not_asked")
              /\ (has /\ pref = "ask") =>
                    /\ asked' \in {"confirmed", "declined"}
                    /\ asked' = "confirmed" => CookieAdopted(context, context', exResponse)
                    /\ asked' = "declined" => context' = context
              /\ (has /\ pref \notin {"auto", None, "", "ask"}) =>
                    (context' = context /\ asked' = "not_asked")
      ]_vars

\* With no set_cookies preference, {a: 1} was merged into "a=0; b=2".
C7_Witness ==
    /\ exStep = "return"
    /\ cfg.set_cookies = None
    /\ exResponse.ok /\ exResponse.cookies = ("a" :> "1")
    /\ "Accept" \in DOMAIN context.headers
    /\ "Cookie" \in DOMAIN context.headers
    /\ context.headers["Cookie"] = <<Segment("a", "1"), Segment("b", "2")>>

----------------------------------------------------------------------------
(* C8 *)

\* C8: once the environment file is loaded, and before any command-line
\* option is executed, context.url is fix_incomplete_url(url argument) when
\* a url argument was given, and the URL of the environment file otherwise.
C8_UrlArgumentOverridesEnv ==
    (pc = "options" /\ args.env) =>
        /\ args.url # EmptyStr => context.url = fix_incomplete_url(args.url)
        /\ args.url = EmptyStr =>
              context.url = IF envFile.hasUrl THEN envFile.url ELSE EmptyStr

\* An environment file with a URL was loaded and the argument '//x' won.
C8_Witness ==
    /\ pc = "options" /\ args.env /\ loadedEnv /\ envFile.hasUrl
    /\ args.url = <<"/","/","x">>
    /\ context.url = HTTPSS \o <<"x">>

----------------------------------------------------------------------------
(* C9 *)

Seeding == pc \in {"load_spec", "make_context", "seed", "crashed"}

\* C9: the previous session is loaded exactly when the program was started
\* without arguments; with arguments the environment file is loaded exactly
\* when --env was passed; the command-line options are executed once, after
\* the seeding and before the first prompt, and not at all when there are
\* none.
C9_StartupOrder ==
    /\ Seeding => (~loadedPrev /\ ~loadedEnv /\ startupExecs = 0)
    /\ ~Seeding =>
          /\ loadedPrev <=> args.argc1
          /\ loadedEnv <=> (~args.argc1 /\ args.env)
    /\ pc \notin {"options"} \cup {"load_spec", "make_context", "seed", "crashed"} =>
          startupExecs = IF args.http_options THEN 1 ELSE 0
    /\ pc = "options" => startupExecs = 0
    /\ (pc = "execute" /\ exCaller = "startup") => accepted = 0
    /\ (pc = "execute" /\ accepted = 0) => (exCaller = "startup" /\ args.http_options)

\* The options were executed after the environment file was loaded, and the
\* first prompt is up.
C9_Witness ==
    /\ pc = "prompt" /\ accepted = 0 /\ startupExecs = 1
    /\ loadedEnv /\ ~loadedPrev

----------------------------------------------------------------------------
(* C10 *)

\* C10: without --spec nothing is fetched and the context's spec is None; a
\* response that was opened is closed; content that is neither JSON nor YAML,
\* or comes in an unknown Content-Encoding, gives a warning and spec = None,
\* and the program goes on.
C10_SpecLoadFailsSoftly ==
    /\ ~Truthy(args.spec) =>
          (~io.opened /\ (pc \notin {"load_spec", "make_context"} => context.spec = None))
    /\ io.opened => io.closed
    /\ (io.opened /\ io.content \notin {"json", "yaml"}) =>
          /\ pc # "crashed"
          /\ io.warned
          /\ pc \notin {"load_spec", "make_context"} => context.spec = None

=============================================================================
